---- MODULE Spec2Model ----
(***************************************************************************)
(* Cats-vs-dogs pipeline: the preprocessing run (load_image_paths,         *)
(* preprocess_images with its two stratified splits) of                    *)
(* src/data/preprocessing.py and the prediction service of                 *)
(* src/inference/app.py, and the epoch loop of src/training/train.py, as    *)
(* state machines.                                                         *)
(*                                                                         *)
(* Ratios are decimal fractions, held as whole numbers of 1/RatioScale, so *)
(* (0.8, 0.1, 0.1) is (8000000, 1000000, 1000000).  Arithmetic on them is  *)
(* exact.  The ratio triples the model enumerates are ones on which the    *)
(* program's double arithmetic gives the same partition sizes as the exact *)
(* arithmetic for every sample count within the bounds, and none lies      *)
(* at distance exactly 1e-6 from 1.0, where double rounding decides.       *)
(***************************************************************************)
EXTENDS Integers, Sequences, FiniteSets, TLC

VARIABLES
    rawDir,       \* the raw data directory: root, cats/ and dogs/ with their entries
    corrupt,      \* raw image files whose bytes PIL cannot decode
    procDirs,     \* directories existing under processed_data_dir: <<split, class>>
    procFiles,    \* files existing under processed_data_dir
    procPictures, \* the picture each of these files holds
    target_size,  \* target_size of the current call
    runs,         \* number of preprocess_images calls started
    pc,           \* position of the current preprocess_images call
    args,         \* (train_ratio, val_ratio, test_ratio) of the current call
    loc,          \* locals of the current call
    result,       \* outcome of the current call
    effects,      \* what the current call has done to the world so far
    procAtCall,   \* <<procDirs, procFiles>> as they were when the call started
    history,      \* the calls that returned, oldest first
    checkpoint,   \* the file at MODEL_PATH: "missing", "valid" or "corrupt"
    started,      \* whether the startup event has run
    model,        \* the service-wide model: "None" or "loaded"
    device,       \* the service-wide device
    transform,    \* the service-wide transform: "None" or "val_transform"
    request_count,     \* Counter inference_requests_total
    request_latency,   \* Histogram inference_request_duration_seconds: observations
    prediction_count,  \* Counter predictions_total, per class
    inflight,     \* per connection, the request handler suspended in it, if any
    served,       \* number of requests received
    last,         \* the response sent last
    answers,      \* the 200 responses of POST /predict, oldest first
    tpc,          \* position of the train() call
    num_epochs,   \* the num_epochs argument of train()
    epoch,        \* the loop variable of the epoch loop
    params,       \* the model parameters: how many training passes made them
    mode,         \* the model's mode: "train" or "eval"
    val_accs,     \* the list val_accs
    best_val_acc, \* the best validation accuracy so far
    val_cm,       \* the local val_cm: unassigned, or the last validation's matrix
    best_model_pt,  \* the file model_save_dir/best_model.pt
    cm_figure,    \* what confusion_matrix.png was drawn from
    test_evals,   \* the evaluations of the test partition made
    trace,        \* the passes over the data made, in order
    picture,      \* an image file: width, height and mode of the picture in it
    tf_set,       \* the service-wide transform preprocess_image finds
    shapes,       \* the shapes of the tensors made of the picture
    probs_out,    \* the class probabilities the softmax gave, in percent
    answer,       \* what predict() made of the probabilities
    processed_data_dir,  \* the processed_data_dir train() was called with
    train_labels  \* the labels train() gave the returned paths of a run

prepVars == <<rawDir, corrupt, procDirs, procFiles, procPictures, target_size, runs, pc, args, loc,
              result, effects, procAtCall, history>>

serveVars == <<checkpoint, started, model, device, transform, request_count,
               request_latency, prediction_count, inflight, served, last,
               answers>>

trainVars == <<tpc, num_epochs, epoch, params, mode, val_accs, best_val_acc,
               val_cm, best_model_pt, cm_figure, test_evals, trace>>

tensorVars == <<picture, tf_set, shapes, probs_out, answer>>

labelVars == <<processed_data_dir, train_labels>>

vars == <<prepVars, serveVars, trainVars, tensorVars, labelVars>>

notPrepVars == <<serveVars, trainVars, tensorVars, labelVars>>
notServeVars == <<prepVars, trainVars, tensorVars, labelVars>>
notTrainVars == <<prepVars, serveVars, tensorVars, labelVars>>
notTensorVars == <<prepVars, serveVars, trainVars, labelVars>>
notLabelVars == <<prepVars, serveVars, trainVars, tensorVars>>

----------------------------------------------------------------------------
(* Bounds of the model *)

MaxJpg == 4       \* .jpg files per class directory
MaxRuns == 2      \* preprocess_images calls in one behaviour
MaxInflight == 2  \* connections whose requests may be in flight together
MaxRequests == 2  \* requests received in one behaviour
MaxBatch == 2     \* files in one POST /predict/batch request
MaxEpochs == 3    \* the largest num_epochs train() is called with

RatioScale == 10 * 1000 * 1000

\* abs(sum - 1.0) < 1e-6, in units of 1/RatioScale
Tolerance == RatioScale \div (1000 * 1000)

Max(a, b) == IF a >= b THEN a ELSE b
Min(a, b) == IF a <= b THEN a ELSE b
Abs(a) == IF a >= 0 THEN a ELSE 0 - a

RECURSIVE SumSeq(_)
SumSeq(s) == IF s = <<>> THEN 0 ELSE Head(s) + SumSeq(Tail(s))

Range(s) == {s[i] : i \in 1..Len(s)}

----------------------------------------------------------------------------
(* The raw directory and load_image_paths *)

ClassDirs == <<"cats", "dogs">>
Splits == <<"train", "val", "test">>

\* The entries of one class directory: n .jpg files, p .png files, t others.
Entries(n, p, t) ==
    {[no |-> i, ext |-> "jpg"] : i \in 1..n}
        \cup {[no |-> i, ext |-> "png"] : i \in 1..p}
        \cup {[no |-> i, ext |-> "txt"] : i \in 1..t}

MissingDir == [exists |-> FALSE, entries |-> {}]

\* Besides its .jpg files a class directory holds no or one .png file and no
\* or one entry that is neither.
PngCounts == {0, 1}
OtherCounts == {0, 1}

\* Class directories with the given file counts, or missing.
ClassDirStates(jpgCounts, pngCounts, otherCounts) ==
    {MissingDir} \cup
    {[exists |-> TRUE, entries |-> Entries(n, p, t)] :
        n \in jpgCounts, p \in pngCounts, t \in otherCounts}

\* Raw directories: a missing root, or a root with cats/ and dogs/ states.
RawDirStates(jpgCounts, pngCounts, otherCounts) ==
    {[exists |-> FALSE, cats |-> MissingDir, dogs |-> MissingDir]} \cup
    {[exists |-> TRUE, cats |-> c, dogs |-> d] :
        c \in ClassDirStates(jpgCounts, pngCounts, otherCounts),
        d \in ClassDirStates(jpgCounts, pngCounts, otherCounts)}

\* Path.exists() of data_path / cls
ClassDirExists(raw, cls) == raw.exists /\ raw[cls].exists

\* The order in which the operating system lists a directory is not
\* specified: ascending or descending file number here.
DirOrders == {"asc", "desc"}

RECURSIVE Listing(_, _)
Listing(nos, order) ==
    IF nos = {} THEN <<>>
    ELSE LET m == IF order = "asc"
                  THEN CHOOSE x \in nos : \A y \in nos : x <= y
                  ELSE CHOOSE x \in nos : \A y \in nos : x >= y
         IN <<m>> \o Listing(nos \ {m}, order)

\* Variant: every directory entry matches, whatever its extension.
MatchesAnyEntry(entry, ext) == TRUE

\* Whether a directory entry matches the pattern '*.<ext>'.
Matches(entry, ext) == entry.ext = ext

\* dir.glob('*.<ext>'): the entries of the class directory with that
\* extension, as paths, in listing order.
Glob(raw, cls, ext, order) ==
    LET nos == {e.no : e \in {x \in raw[cls].entries : Matches(x, ext)}}
        lst == Listing(nos, order)
    IN [i \in 1..Len(lst) |-> [dir |-> cls, no |-> lst[i], ext |-> ext]]

\* Variant: label 0 is appended in both class blocks.
LabelAlwaysCat(cls) == 0

\* The label appended next to a path found in class directory cls.
LabelOfDir(cls) == IF cls = "cats" THEN 0 ELSE 1

\* One "if <cls>_dir.exists(): for ... glob('*.jpg') ... glob('*.png')" block.
LoadClass(raw, cls, order) ==
    IF ClassDirExists(raw, cls)
    THEN LET found == Glob(raw, cls, "jpg", order) \o Glob(raw, cls, "png", order)
         IN [paths |-> found,
             labels |-> [i \in 1..Len(found) |-> LabelOfDir(cls)]]
    ELSE [paths |-> <<>>, labels |-> <<>>]

\* load_image_paths(data_dir) -> (image_paths, labels)
load_image_paths(raw, order) ==
    LET c == LoadClass(raw, "cats", order)
        d == LoadClass(raw, "dogs", order)
    IN [image_paths |-> c.paths \o d.paths, labels |-> c.labels \o d.labels]

----------------------------------------------------------------------------
(* The seeded random stream of train_test_split *)

\* Variant: the seed is not fixed but differs from call to call.
RandomStatePerRun == 42 + runs

\* random_state=42 in both train_test_split calls
RandomState == 42

\* A seeded generator: the stream it yields is a function of the seed alone.
\* The generator is a small linear congruential one standing for numpy's; no
\* property below depends on which permutation a seed gives.
Seeded(seed) == seed % 65537
NextRand(s) == (s * 75 + 74) % 65537

Swap(x, i, j) == [x EXCEPT ![i] = x[j], ![j] = x[i]]

\* The shuffle loop "for i in reversed(range(1, n)): j = draw(i); swap"
RECURSIVE Shuffle(_, _, _)
Shuffle(x, i, s) ==
    IF i <= 1 THEN [v |-> x, rng |-> s]
    ELSE LET s1 == NextRand(s)
             j == (s1 % i) + 1
         IN Shuffle(Swap(x, i, j), i - 1, s1)

\* rng.permutation(x) of a sequence; rng.permutation(k) is that of 1..k
Permutation(x, s) == Shuffle(x, Len(x), s)
Identity(k) == [i \in 1..k |-> i]

\* rng.choice(inds, size=size, replace=False): the first `size` of a permutation
Choice(inds, size, s) ==
    LET p == Permutation(Identity(Len(inds)), s)
    IN [v |-> {inds[p.v[i]] : i \in 1..size}, rng |-> p.rng]

----------------------------------------------------------------------------
(* The stratified split (train_test_split with stratify=labels) *)

CeilDiv(a, b) == (a + b - 1) \div b

\* np.where(seq == value): the positions holding value, ascending
RECURSIVE Where(_, _, _)
Where(seq, value, i) ==
    IF i > Len(seq) THEN <<>>
    ELSE (IF seq[i] = value THEN <<i>> ELSE <<>>) \o Where(seq, value, i + 1)

\* The loop of _approximate_mode over the distinct remainders, largest first:
\* add one draw to the classes with that remainder, ties broken by the stream.
RECURSIVE ApproxAdd(_, _, _, _, _)
ApproxAdd(floored, rems, values, need, s) ==
    IF need = 0 \/ values = <<>> THEN [v |-> floored, rng |-> s]
    ELSE LET inds == Where(rems, Head(values), 1)
             add_now == Min(Len(inds), need)
             ch == Choice(inds, add_now, s)
         IN ApproxAdd([c \in DOMAIN floored |->
                           floored[c] + (IF c \in ch.v THEN 1 ELSE 0)],
                      rems, Tail(values), need - add_now, ch.rng)

\* _approximate_mode(class_counts, n_draws, rng): n_draws shared out over the
\* classes in proportion to class_counts.  continuous[c] is
\* class_counts[c] * n_draws / total; remainders are compared as numerators.
approximate_mode(class_counts, n_draws, s) ==
    LET total == SumSeq(class_counts)
        floored == [c \in DOMAIN class_counts |->
                        (class_counts[c] * n_draws) \div total]
        rems == [c \in DOMAIN class_counts |->
                        (class_counts[c] * n_draws) % total]
        need == n_draws - SumSeq(floored)
    IN ApproxAdd(floored, rems, Listing(Range(rems), "desc"), need, s)

\* One class's share: permute the class's indices, the first n_i go to train
\* and the next t_i to test.  Classes are handled in order, on one stream.
RECURSIVE PerClass(_, _, _, _, _, _, _)
PerClass(class_indices, n_i, t_i, c, train, test, s) ==
    IF c > Len(class_indices) THEN [train |-> train, test |-> test, rng |-> s]
    ELSE LET p == Permutation(Identity(Len(class_indices[c])), s)
             perm_indices == [k \in 1..Len(p.v) |-> class_indices[c][p.v[k]]]
         IN PerClass(class_indices, n_i, t_i, c + 1,
                     train \o SubSeq(perm_indices, 1, n_i[c]),
                     test \o SubSeq(perm_indices, n_i[c] + 1, n_i[c] + t_i[c]),
                     p.rng)

SplitError == [ok |-> FALSE]

\* The last two lines of an iteration: train = rng.permutation(train), then
\* test = rng.permutation(test) on the stream the first left.
PermuteTest(train, test) ==
    [ok |-> TRUE, train |-> train.v, test |-> Permutation(test, train.rng).v]

PermuteBoth(pcl) == PermuteTest(Permutation(pcl.train, pcl.rng), pcl.test)

\* t_i = _approximate_mode(class_counts - n_i, n_test, rng), then the classes.
DrawTest(class_indices, class_counts, n_test, ni) ==
    LET ti == approximate_mode(
                  [c \in DOMAIN class_counts |-> class_counts[c] - ni.v[c]],
                  n_test, ni.rng)
    IN PermuteBoth(PerClass(class_indices, ni.v, ti.v, 1, <<>>, <<>>, ti.rng))

\* n_i = _approximate_mode(class_counts, n_train, rng), after the checks: the
\* ValueError of a class with fewer than 2 members or of a part smaller than
\* the number of classes.
DrawTrain(class_indices, class_counts, n_train, n_test, seed) ==
    IF \E c \in DOMAIN class_counts : class_counts[c] < 2 THEN SplitError
    ELSE IF n_train < Len(class_counts) \/ n_test < Len(class_counts)
    THEN SplitError
    ELSE DrawTest(class_indices, class_counts, n_test,
                  approximate_mode(class_counts, n_train, Seeded(seed)))

\* np.split(np.argsort(y_indices, kind="mergesort"), ...): per class, in the
\* order of np.unique, the positions of its members, ascending.
ClassIndices(y, classes) == [c \in 1..Len(classes) |-> Where(y, classes[c], 1)]

ClassCounts(class_indices) ==
    [c \in DOMAIN class_indices |-> Len(class_indices[c])]

\* StratifiedShuffleSplit._iter_indices: index sequences (train, test), or
\* the ValueError.
StratifiedShuffleSplit(y, n_train, n_test, seed) ==
    LET class_indices == ClassIndices(y, Listing(Range(y), "asc"))
    IN DrawTrain(class_indices, ClassCounts(class_indices), n_train, n_test, seed)

\* _safe_indexing of the arrays by the two index sequences.
Indexed(arr, lab, cv) ==
    IF ~cv.ok THEN SplitError
    ELSE [ok |-> TRUE,
          train |-> [i \in 1..Len(cv.train) |-> arr[cv.train[i]]],
          test |-> [i \in 1..Len(cv.test) |-> arr[cv.test[i]]],
          train_labels |-> [i \in 1..Len(cv.train) |-> lab[cv.train[i]]],
          test_labels |-> [i \in 1..Len(cv.test) |-> lab[cv.test[i]]]]

\* _validate_shuffle_split: n_test = ceil(test_size * n_samples) and
\* n_train = n_samples - n_test for test_size = num/den.
NTest(n, num, den) == CeilDiv(num * n, den)

\* Variant: train_test_split without stratify=, a plain ShuffleSplit: the first
\* n_test of one permutation are the test part, the rest the train part.
ShuffleSplitIndices(n, n_test, p) ==
    [ok |-> TRUE, test |-> SubSeq(p, 1, n_test), train |-> SubSeq(p, n_test + 1, n)]

train_test_split_unstratified(arr, lab, num, den, seed) ==
    IF ~(num > 0 /\ num < den) THEN SplitError
    ELSE IF Len(arr) - NTest(Len(arr), num, den) = 0 THEN SplitError
    ELSE Indexed(arr, lab,
                 ShuffleSplitIndices(Len(arr), NTest(Len(arr), num, den),
                     Permutation(Identity(Len(arr)), Seeded(seed)).v))

\* train_test_split(arr, lab, test_size=num/den, stratify=lab, random_state=seed)
\* ValueError unless 0 < test_size < 1 and n_train > 0.
train_test_split(arr, lab, num, den, seed) ==
    IF ~(num > 0 /\ num < den) THEN SplitError
    ELSE IF Len(arr) - NTest(Len(arr), num, den) = 0 THEN SplitError
    ELSE Indexed(arr, lab,
                 StratifiedShuffleSplit(lab, Len(arr) - NTest(Len(arr), num, den),
                                        NTest(Len(arr), num, den), seed))

----------------------------------------------------------------------------
(* preprocess_images *)

Ratios(tr, va, te) == [train |-> tr, val |-> va, test |-> te]

\* The (train_ratio, val_ratio, test_ratio) triples a call is made with:
\* the default 0.8/0.1/0.1; 0.34/0.33/0.33; 0.5/0.3/0.2000005 (within the
\* tolerance of 1.0); 0.5/0.3/0.3 (sums to 1.1); 0.5/0.3/0.199998 (just outside
\* the tolerance); 1.0/0.0/0.0 and 0.5/0.5/0.0 (valid sums the splits reject).
RatioTriples ==
    {Ratios(8000000, 1000000, 1000000), Ratios(3400000, 3300000, 3300000),
     Ratios(5000000, 3000000, 2000005), Ratios(5000000, 3000000, 3000000),
     Ratios(5000000, 3000000, 1999980), Ratios(10000000, 0, 0),
     Ratios(5000000, 5000000, 0)}

\* Variant: the assert without abs().
RatiosValidNoAbs(a) == a.train + a.val + a.test - RatioScale < Tolerance

\* assert abs(train_ratio + val_ratio + test_ratio - 1.0) < 1e-6
RatiosValid(a) == Abs(a.train + a.val + a.test - RatioScale) < Tolerance

\* Variant: the emptiness check never fires.
NoImagesFoundNever(image_paths) == FALSE

\* if len(image_paths) == 0: raise ValueError("No images found ...")
NoImagesFound(image_paths) == Len(image_paths) = 0

\* Variant: the first split holds out val_ratio only.
FirstTestSizeValOnly(a) == [num |-> a.val, den |-> RatioScale]

\* test_size=(val_ratio + test_ratio) of the first split, as num/den
FirstTestSize(a) == [num |-> a.val + a.test, den |-> RatioScale]

\* val_size = val_ratio / (val_ratio + test_ratio); test_size=(1 - val_size)
SecondTestSize(a) ==
    LET val_size == [num |-> a.val, den |-> a.val + a.test]
    IN [num |-> val_size.den - val_size.num, den |-> val_size.den]

\* Variant: the second split is given the whole sample list again.
SecondSplitWholeList(l) == [arr |-> l.image_paths, lab |-> l.labels]

\* The arrays the two splits are given.
FirstSplitArrays(l) == [arr |-> l.image_paths, lab |-> l.labels]
SecondSplitArrays(l) == [arr |-> l.temp_paths, lab |-> l.temp_labels]

\* target_size: the default (224, 224), which train() and the tests pass too;
\* one kind of call below passes a size that is not square.
DefaultTargetSize == <<224, 224>>

\* The calls made: the ratios 0.5/0.3/0.2000005 go with the target_size that
\* is not square, every other ratio triple with the default target_size.
Calls ==
    {[ratios |-> a,
      target_size |-> IF a = Ratios(5000000, 3000000, 2000005)
                      THEN <<64, 32>> ELSE DefaultTargetSize] : a \in RatioTriples}

\* The picture a raw file holds: file 2 of a directory is 224 wide, the .jpg
\* files are 224 high and RGB, the .png files 100 high with an alpha channel.
RawPicture(img_path) ==
    [width |-> 112 * img_path.no,
     height |-> IF img_path.ext = "jpg" THEN 224 ELSE 100,
     mode |-> IF img_path.ext = "jpg" THEN "RGB" ELSE "RGBA"]

\* Image.convert(mode)
convert(img, m) == [img EXCEPT !.mode = m]

\* Image.resize(size, ...): PIL's size is (width, height)
resize(img, size) == [img EXCEPT !.width = size[1], !.height = size[2]]

\* Variant: the opened picture is saved, not the resized one.
SavedUnresized(img, size) == convert(img, "RGB")

\* img_resized of the copy loop
SavedPicture(img, size) == resize(convert(img, "RGB"), size)

\* class_name = 'cats' if label == 0 else 'dogs'
ClassName(label) == IF label = 0 THEN "cats" ELSE "dogs"

\* output_path = processed_path / split_name / class_name / Path(img_path).name
OutputPath(split_name, img_path, label) ==
    [split |-> split_name, cls |-> ClassName(label),
     no |-> img_path.no, ext |-> img_path.ext]

\* The (split_name, img_path, label) items of the copy loop, in loop order.
SplitItems(split_name, paths, split_labels) ==
    [i \in 1..Len(paths) |->
        [split |-> split_name, path |-> paths[i], label |-> split_labels[i]]]

CopyItems(l) ==
    SplitItems("train", l.train_paths, l.train_labels)
        \o SplitItems("val", l.val_paths, l.val_labels)
        \o SplitItems("test", l.test_paths, l.test_labels)

\* Image.open(img_path) raises on a file it cannot decode: the position of the
\* first such item, or Len(items) + 1.
RECURSIVE FirstUndecodable(_, _, _)
FirstUndecodable(items, bad, i) ==
    IF i > Len(items) \/ items[i].path \in bad THEN i
    ELSE FirstUndecodable(items, bad, i + 1)

\* processed_paths[split_name] after the first k items were saved
RECURSIVE ProcessedPaths(_, _, _)
ProcessedPaths(items, k, split_name) ==
    IF k = 0 THEN <<>>
    ELSE ProcessedPaths(items, k - 1, split_name)
            \o (IF items[k].split = split_name
                THEN <<OutputPath(items[k].split, items[k].path, items[k].label)>>
                ELSE <<>>)

\* The files img_resized.save(output_path) wrote for the first k items.
SavedFiles(items, k, size) ==
    {[path |-> OutputPath(items[i].split, items[i].path, items[i].label),
      picture |-> SavedPicture(RawPicture(items[i].path), size)] : i \in 1..k}

\* The files with their pictures after the save calls: a save replaces the
\* file that was at its path.
Overwritten(files, saved) ==
    {f \in files : \A w \in saved : w.path # f.path} \cup saved

NoLocals ==
    [image_paths |-> <<>>, labels |-> <<>>,
     train_paths |-> <<>>, train_labels |-> <<>>,
     temp_paths |-> <<>>, temp_labels |-> <<>>,
     val_paths |-> <<>>, val_labels |-> <<>>,
     test_paths |-> <<>>, test_labels |-> <<>>]

NoResult == [status |-> "none", train |-> <<>>, val |-> <<>>, test |-> <<>>]

Raised(status) == [status |-> status, train |-> <<>>, val |-> <<>>, test |-> <<>>]

\* The raw files a run may find undecodable: none, or the first .jpg of cats/.
CorruptChoices(raw) ==
    {{}} \cup {{[dir |-> cls, no |-> 1, ext |-> "jpg"]} :
                 cls \in {c \in {"cats"} :
                            /\ ClassDirExists(raw, c)
                            /\ [no |-> 1, ext |-> "jpg"] \in raw[c].entries}}

InitPrep(jpgCounts) ==
    /\ rawDir \in RawDirStates(jpgCounts, PngCounts, OtherCounts)
    /\ corrupt \in CorruptChoices(rawDir)
    /\ procDirs = {}
    /\ procFiles = {}
    /\ procPictures = {}
    /\ target_size = DefaultTargetSize
    /\ runs = 0
    /\ pc = "idle"
    /\ args = Ratios(0, 0, 0)
    /\ loc = NoLocals
    /\ result = NoResult
    /\ effects = {}
    /\ procAtCall = <<{}, {}>>
    /\ history = <<>>

\* preprocess_images(raw_data_dir, processed_data_dir, ratios) is called.
Call(a, size) ==
    /\ pc = "idle"
    /\ runs < MaxRuns
    /\ runs' = runs + 1
    /\ args' = a
    /\ target_size' = size
    /\ loc' = NoLocals
    /\ result' = NoResult
    /\ effects' = {}
    /\ procAtCall' = <<procDirs, procFiles>>
    /\ pc' = "validate"
    /\ UNCHANGED <<rawDir, corrupt, procDirs, procFiles, procPictures, history>>
    /\ UNCHANGED notPrepVars

\* The ratio assert.
ValidateRatios ==
    /\ pc = "validate"
    /\ IF RatiosValid(args)
       THEN pc' = "load" /\ UNCHANGED result
       ELSE pc' = "idle" /\ result' = Raised("AssertionError")
    /\ UNCHANGED <<rawDir, corrupt, procDirs, procFiles, procPictures,
                   target_size, runs, args, loc,
                   effects, procAtCall, history>>
    /\ UNCHANGED notPrepVars

\* image_paths, labels = load_image_paths(raw_data_dir)
LoadPaths(order) ==
    /\ pc = "load"
    /\ LET r == load_image_paths(rawDir, order)
       IN loc' = [loc EXCEPT !.image_paths = r.image_paths, !.labels = r.labels]
    /\ effects' = effects \cup {"scan_raw"}
    /\ pc' = "check"
    /\ UNCHANGED <<rawDir, corrupt, procDirs, procFiles, procPictures,
                   target_size, runs, args, result,
                   procAtCall, history>>
    /\ UNCHANGED notPrepVars

\* The "No images found" check.
CheckFound ==
    /\ pc = "check"
    /\ IF NoImagesFound(loc.image_paths)
       THEN pc' = "idle" /\ result' = Raised("ValueError: No images found")
       ELSE pc' = "split1" /\ UNCHANGED result
    /\ UNCHANGED <<rawDir, corrupt, procDirs, procFiles, procPictures,
                   target_size, runs, args, loc,
                   effects, procAtCall, history>>
    /\ UNCHANGED notPrepVars

\* What a split leaves in the locals, or the ValueError it raises.
FirstSplitDone(r) ==
    IF r.ok
    THEN /\ loc' = [loc EXCEPT !.train_paths = r.train,
                               !.train_labels = r.train_labels,
                               !.temp_paths = r.test,
                               !.temp_labels = r.test_labels]
         /\ pc' = "split2"
         /\ UNCHANGED result
    ELSE /\ pc' = "idle"
         /\ result' = Raised("ValueError: split")
         /\ UNCHANGED loc

SecondSplitDone(r) ==
    IF r.ok
    THEN /\ loc' = [loc EXCEPT !.val_paths = r.train,
                               !.val_labels = r.train_labels,
                               !.test_paths = r.test,
                               !.test_labels = r.test_labels]
         /\ pc' = "mkdirs"
         /\ UNCHANGED result
    ELSE /\ pc' = "idle"
         /\ result' = Raised("ValueError: split")
         /\ UNCHANGED loc

\* First split: train vs (val + test).
FirstSplit ==
    /\ pc = "split1"
    /\ effects' = effects \cup {"split"}
    /\ FirstSplitDone(train_test_split(FirstSplitArrays(loc).arr,
                                       FirstSplitArrays(loc).lab,
                                       FirstTestSize(args).num,
                                       FirstTestSize(args).den, RandomState))
    /\ UNCHANGED <<rawDir, corrupt, procDirs, procFiles, procPictures,
                   target_size, runs, args,
                   procAtCall, history>>
    /\ UNCHANGED notPrepVars

\* Second split: val vs test.
SecondSplit ==
    /\ pc = "split2"
    /\ SecondSplitDone(train_test_split(SecondSplitArrays(loc).arr,
                                        SecondSplitArrays(loc).lab,
                                        SecondTestSize(args).num,
                                        SecondTestSize(args).den, RandomState))
    /\ UNCHANGED <<rawDir, corrupt, procDirs, procFiles, procPictures,
                   target_size, runs, args, effects,
                   procAtCall, history>>
    /\ UNCHANGED notPrepVars

\* mkdir(parents=True, exist_ok=True) of processed/<split>/<cats|dogs>.
MakeDirs ==
    /\ pc = "mkdirs"
    /\ procDirs' = procDirs \cup
            {<<sp, cls>> : sp \in Range(Splits), cls \in Range(ClassDirs)}
    /\ effects' = effects \cup {"mkdir"}
    /\ pc' = "copy"
    /\ UNCHANGED <<rawDir, corrupt, procFiles, procPictures, target_size, runs,
                   args, loc, result,
                   procAtCall, history>>
    /\ UNCHANGED notPrepVars

\* The copy-and-resize loop, up to its end or to the first image that cannot
\* be opened, and the return of the three path lists.
CopyAndReturn ==
    /\ pc = "copy"
    /\ LET items == CopyItems(loc)
           bad == FirstUndecodable(items, corrupt, 1)
           saved == bad - 1
           out == [train |-> ProcessedPaths(items, saved, "train"),
                   val |-> ProcessedPaths(items, saved, "val"),
                   test |-> ProcessedPaths(items, saved, "test")]
       IN /\ procFiles' = procFiles \cup Range(out.train) \cup Range(out.val)
                              \cup Range(out.test)
          /\ procPictures' =
                Overwritten(procPictures, SavedFiles(items, saved, target_size))
          /\ effects' = effects \cup (IF saved > 0 THEN {"write"} ELSE {})
          /\ IF bad > Len(items)
             THEN /\ result' = [status |-> "returned", train |-> out.train,
                                val |-> out.val, test |-> out.test]
                  /\ history' = Append(history,
                        [args |-> args, image_paths |-> loc.image_paths,
                         labels |-> loc.labels, train |-> out.train,
                         val |-> out.val, test |-> out.test])
             ELSE /\ result' = Raised("UnidentifiedImageError")
                  /\ UNCHANGED history
    /\ pc' = "idle"
    /\ UNCHANGED <<rawDir, corrupt, procDirs, target_size, runs, args, loc,
                   procAtCall>>
    /\ UNCHANGED notPrepVars

NextPrep ==
    \/ \E c \in Calls : Call(c.ratios, c.target_size)
    \/ ValidateRatios
    \/ \E order \in DirOrders : LoadPaths(order)
    \/ CheckFound
    \/ FirstSplit
    \/ SecondSplit
    \/ MakeDirs
    \/ CopyAndReturn

PrepIdle ==
    /\ rawDir = [exists |-> FALSE, cats |-> MissingDir, dogs |-> MissingDir]
    /\ corrupt = {}
    /\ procDirs = {}
    /\ procFiles = {}
    /\ procPictures = {}
    /\ target_size = DefaultTargetSize
    /\ runs = 0
    /\ pc = "idle"
    /\ args = Ratios(0, 0, 0)
    /\ loc = NoLocals
    /\ result = NoResult
    /\ effects = {}
    /\ procAtCall = <<{}, {}>>
    /\ history = <<>>

----------------------------------------------------------------------------
(* The inference service *)

\* What UploadFile.content_type holds: the declared type or, for an upload
\* part with no Content-Type header, None (current Starlette) or the empty
\* string (older releases); no release is pinned.
ContentTypes == {"None", "", "image/jpeg", "image/png", "text/plain"}

\* The bytes of an upload: two decodable images and bytes that are no image.
ImageBytes == {"cat_picture", "dog_picture"}
UploadBytes == ImageBytes \cup {"not_an_image"}

Uploads == [content_type : ContentTypes, bytes : UploadBytes]

\* file.content_type.startswith: None has no such attribute (AttributeError).
HasStartswith(content_type) == content_type # "None"
StartsWithImage(content_type) == content_type \in {"image/jpeg", "image/png"}

\* Image.open(io.BytesIO(image_bytes)) succeeds
Decodable(image_bytes) == image_bytes \in ImageBytes

\* softmax(model(image_tensor)) of the loaded checkpoint, in percent.
Probabilities(image_bytes) ==
    IF image_bytes = "cat_picture" THEN [cat |-> 70, dog |-> 30]
    ELSE [cat |-> 20, dog |-> 80]

\* get_data_transforms(augment): (train_transform, val_transform).  The
\* training transform of augment=True crops, flips, rotates and jitters at
\* random; val_transform and the training transform of augment=False do not.
get_data_transforms(augment) ==
    <<IF augment THEN "train_transform_augmenting" ELSE "train_transform_plain",
      "val_transform">>

Augmenting(tf) == tf = "train_transform_augmenting"

\* Variant: the first transform of get_data_transforms() with its default
\* augment=True is taken.
InferenceTransformAugmenting == get_data_transforms(TRUE)[1]

\* "_, transform = get_data_transforms(augment=False)" of load_model_once
InferenceTransform == get_data_transforms(FALSE)[2]

\* "model.eval()" at the start of predict: dropout is off and batch
\* normalisation uses (and leaves alone) its running statistics.
ForwardMode == "eval"

\* The outcomes of the random draws of one request: they reach the output only
\* through an augmenting transform or through dropout in training mode.
Draws == {0, 1}

\* model(image_tensor) followed by softmax, in percent.
ForwardPass(image_tensor, m) ==
    IF (Augmenting(image_tensor.by) \/ m = "train") /\ image_tensor.draw = 1
    THEN [cat |-> Probabilities(image_tensor.image).dog,
          dog |-> Probabilities(image_tensor.image).cat]
    ELSE Probabilities(image_tensor.image)

NoException ==
    [raised |-> FALSE, type |-> "none", status_code |-> 0, detail |-> "none"]
HTTPException(code, detail) ==
    [raised |-> TRUE, type |-> "HTTPException", status_code |-> code,
     detail |-> detail]
OtherException(type) ==
    [raised |-> TRUE, type |-> type, status_code |-> 0, detail |-> type]

\* "if not file.content_type.startswith('image/'): raise HTTPException(400)"
ValidateFileType(file) ==
    IF ~HasStartswith(file.content_type) THEN OtherException("AttributeError")
    ELSE IF ~StartsWithImage(file.content_type)
    THEN HTTPException(400, "File must be an image")
    ELSE NoException

\* preprocess_image(image_bytes): the tensor, or HTTPException 400 for whatever
\* its try block raised.  The tensor is the image seen through the service-wide
\* transform or, when that is None, the fallback transform.
preprocess_image(image_bytes, tf, draw) ==
    IF Decodable(image_bytes)
    THEN [exc |-> NoException,
          tensor |-> [image |-> image_bytes,
                      by |-> IF tf # "None" THEN tf ELSE "transform_fallback",
                      draw |-> draw]]
    ELSE [exc |-> HTTPException(400, "Invalid image format"), tensor |-> "none"]

\* "confidence, predicted = torch.max(probabilities, 1)": the index of the
\* first maximal value.
Argmax(probs) == IF probs.cat >= probs.dog THEN 0 ELSE 1

\* Variant: the class names are swapped.
PredictedClassSwapped(predicted) == IF predicted = 0 THEN "dog" ELSE "cat"

\* predicted_class = "cat" if predicted.item() == 0 else "dog"
PredictedClass(predicted) == IF predicted = 0 THEN "cat" ELSE "dog"

\* The dict predict() returns for the probabilities [cat |-> probs[0],
\* dog |-> probs[1]].
PredictResult(probs) ==
    [prediction |-> PredictedClass(Argmax(probs)),
     class_probabilities |-> [cat |-> probs.cat, dog |-> probs.dog],
     confidence |-> Max(probs.cat, probs.dog)]

\* predict(image_tensor): 503 when no model is loaded, else the result dict.
predict(image_tensor, m) ==
    IF m = "None"
    THEN [exc |-> HTTPException(503, "Model not loaded"), result |-> "none"]
    ELSE [exc |-> NoException,
          result |-> PredictResult(ForwardPass(image_tensor, ForwardMode))]

\* Variant: no "except HTTPException: raise" clause, everything becomes 500.
PropagatedAs500(exc) == HTTPException(500, "Prediction failed")

\* The except clauses of predict_image: an HTTPException is re-raised as it
\* is, anything else becomes HTTPException 500.
Propagated(exc) ==
    IF exc.type = "HTTPException" THEN exc
    ELSE HTTPException(500, "Prediction failed")

Response(endpoint, file, code, body) ==
    [endpoint |-> endpoint, file |-> file, status_code |-> code, body |-> body,
     model_before |-> model, model_after |-> model']

\* The error response the framework makes of the HTTPException a handler raised.
ErrorResponse(endpoint, file, exc) ==
    Response(endpoint, file, exc.status_code, exc.detail)

\* The files of a POST /predict/batch request: predict_batch looks at the
\* filename and the bytes only, never at the content type.  The i-th file of
\* a request is named after its position, so that every file of a request has
\* a name of its own.
Filenames == <<"a.jpg", "b.jpg", "c.jpg", "d.jpg">>
BatchBytes == {"dog_picture", "not_an_image"}
BatchFiles(i) == [filename : {Filenames[i]}, bytes : BatchBytes]

\* The file lists of a batch request: one file or more.
Batches ==
    UNION {{q \in [1..n -> UNION {BatchFiles(i) : i \in 1..n}] :
                \A i \in 1..n : q[i] \in BatchFiles(i)} : n \in 1..MaxBatch}

\* The locals of a handler suspended at "await file.read()": st is "free" (no
\* request), "reading" (predict_image) or "batch" (predict_batch, with the
\* file list and the results appended so far).
NoRequest ==
    [st |-> "free", file |-> [content_type |-> "None", bytes |-> "not_an_image"],
     files |-> <<>>, results |-> <<>>]

NoResponse ==
    [endpoint |-> "none", file |-> NoRequest.file, status_code |-> 0,
     body |-> "none", model_before |-> "None", model_after |-> "None"]

Connections == 1..MaxInflight

InitServe ==
    /\ checkpoint \in {"missing", "valid", "corrupt"}
    /\ started = FALSE
    /\ model = "None"
    /\ device = "None"
    /\ transform = "None"
    /\ request_count = 0
    /\ request_latency = 0
    /\ prediction_count = [cat |-> 0, dog |-> 0]
    /\ inflight = [c \in Connections |-> NoRequest]
    /\ served = 0
    /\ last = NoResponse
    /\ answers = <<>>

ServeIdle ==
    /\ checkpoint = "missing"
    /\ started = FALSE
    /\ model = "None"
    /\ device = "None"
    /\ transform = "None"
    /\ request_count = 0
    /\ request_latency = 0
    /\ prediction_count = [cat |-> 0, dog |-> 0]
    /\ inflight = [c \in Connections |-> NoRequest]
    /\ served = 0
    /\ last = NoResponse
    /\ answers = <<>>

\* Variant: the model object is assigned before its state dict is loaded, so
\* a file torch cannot load leaves an untrained model in place.
StartupKeepsBrokenModel ==
    /\ ~started
    /\ started' = TRUE
    /\ IF checkpoint = "missing"
       THEN UNCHANGED <<model, device, transform>>
       ELSE IF checkpoint = "valid"
       THEN model' = "loaded" /\ device' = "cpu" /\ transform' = InferenceTransform
       ELSE model' = "loaded" /\ device' = "cpu" /\ UNCHANGED transform
    /\ UNCHANGED <<checkpoint, request_count, request_latency,
                   prediction_count, inflight, served, last>>
    /\ UNCHANGED answers
    /\ UNCHANGED notServeVars

\* startup_event: load_model_once().  A missing file returns before anything is
\* assigned; a file torch cannot load raises after device was assigned.
Startup ==
    /\ ~started
    /\ started' = TRUE
    /\ IF checkpoint = "missing"
       THEN UNCHANGED <<model, device, transform>>
       ELSE IF checkpoint = "valid"
       THEN model' = "loaded" /\ device' = "cpu" /\ transform' = InferenceTransform
       ELSE device' = "cpu" /\ UNCHANGED <<model, transform>>
    /\ UNCHANGED <<checkpoint, request_count, request_latency,
                   prediction_count, inflight, served, last>>
    /\ UNCHANGED answers
    /\ UNCHANGED notServeVars

\* The service-wide names and what a request handler leaves in them: no
\* handler has a "global" statement or assigns model, device or transform.
ServiceGlobals == [model |-> model, device |-> device, transform |-> transform]

\* Variant: the fallback transform of preprocess_image is kept service-wide.
HandlerKeepsFallback(g) ==
    [g EXCEPT !.transform = IF @ = "None" THEN "transform_fallback" ELSE @]

HandlerGlobals(g) == g

GlobalsBecome(g) ==
    /\ model' = g.model
    /\ device' = g.device
    /\ transform' = g.transform

\* GET /health
Health ==
    /\ UNCHANGED <<checkpoint, started, model, device, transform, request_count,
                   request_latency, prediction_count, inflight, served>>
    /\ last' = Response("/health", NoRequest.file, 200,
                        [status |-> "healthy", model_loaded |-> model # "None"])
    /\ UNCHANGED answers
    /\ UNCHANGED notServeVars

\* GET /metrics: generate_latest() of the three metrics.
Metrics ==
    /\ started
    /\ UNCHANGED <<checkpoint, started, model, device, transform, request_count,
                   request_latency, prediction_count, inflight, served>>
    /\ last' = Response("/metrics", NoRequest.file, 200,
                        [inference_requests_total |-> request_count,
                         inference_request_duration_seconds_count |-> request_latency,
                         predictions_total |-> prediction_count])
    /\ UNCHANGED answers
    /\ UNCHANGED notServeVars

\* POST /predict up to "await file.read()": the request is counted, the
\* content type checked; a failed check is answered at once.
PredictReceive(c, file) ==
    /\ started
    /\ served < MaxRequests
    /\ inflight[c].st = "free"
    /\ UNCHANGED <<checkpoint, started, request_latency, prediction_count>>
    /\ GlobalsBecome(HandlerGlobals(ServiceGlobals))
    /\ served' = served + 1
    /\ request_count' = request_count + 1
    /\ IF ValidateFileType(file).raised
       THEN /\ last' = ErrorResponse("/predict", file,
                                     Propagated(ValidateFileType(file)))
            /\ UNCHANGED inflight
       ELSE /\ inflight' = [inflight EXCEPT
                                ![c] = [NoRequest EXCEPT !.st = "reading",
                                                         !.file = file]]
            /\ UNCHANGED last
    /\ UNCHANGED answers
    /\ UNCHANGED notServeVars

\* Variant: the latency is observed in a "finally" block, for errors as well.
PredictOutcomeObservesAlways(c, file, pre) ==
    /\ request_latency' = request_latency + 1
    /\ IF pre.exc.raised
       THEN /\ last' = ErrorResponse("/predict", file, Propagated(pre.exc))
            /\ UNCHANGED prediction_count
       ELSE IF predict(pre.tensor, model).exc.raised
       THEN /\ last' = ErrorResponse("/predict", file,
                                     Propagated(predict(pre.tensor, model).exc))
            /\ UNCHANGED prediction_count
       ELSE /\ prediction_count' =
                   [prediction_count EXCEPT
                       ![predict(pre.tensor, model).result.prediction] = @ + 1]
            /\ last' = Response("/predict", file, 200,
                                predict(pre.tensor, model).result)

\* The outcome of predict_image after the read: preprocess, predict, metrics.
PredictOutcome(c, file, pre) ==
    IF pre.exc.raised
    THEN /\ last' = ErrorResponse("/predict", file, Propagated(pre.exc))
         /\ UNCHANGED <<request_latency, prediction_count>>
    ELSE IF predict(pre.tensor, model).exc.raised
    THEN /\ last' = ErrorResponse("/predict", file,
                                  Propagated(predict(pre.tensor, model).exc))
         /\ UNCHANGED <<request_latency, prediction_count>>
    ELSE /\ prediction_count' =
                [prediction_count EXCEPT
                    ![predict(pre.tensor, model).result.prediction] = @ + 1]
         /\ request_latency' = request_latency + 1
         /\ last' = Response("/predict", file, 200,
                             predict(pre.tensor, model).result)

\* Variant: the bytes read are kept in one service-wide buffer, that of the
\* first connection.
ImageBytesShared(c) == inflight[1].file.bytes

\* "image_bytes = await file.read()" of predict_image: the bytes of this
\* request's own file, held in a local of this handler call.
ImageBytesRead(c) == inflight[c].file.bytes

\* POST /predict from the completed read to the response.
PredictRespond(c) ==
    /\ inflight[c].st = "reading"
    /\ UNCHANGED <<checkpoint, started, request_count, served>>
    /\ GlobalsBecome(HandlerGlobals(ServiceGlobals))
    /\ \E draw \in Draws :
            PredictOutcome(c, inflight[c].file,
                           preprocess_image(ImageBytesRead(c), transform, draw))
    /\ answers' = IF last'.status_code = 200
                  THEN Append(answers, [bytes |-> last'.file.bytes,
                                        body |-> last'.body,
                                        after |-> last.endpoint])
                  ELSE answers
    /\ inflight' = [inflight EXCEPT ![c] = NoRequest]
    /\ UNCHANGED notServeVars

\* Variant: the loop reads the first file of the request every time.
BatchFirstFile(c) == inflight[c].files[1]

\* "image_bytes = await file.read()" of predict_batch: the bytes of the file
\* this request's loop is at.
BatchFileRead(c) == inflight[c].files[Len(inflight[c].results) + 1]

\* One iteration's entry: {"filename", **result}, or {"filename", "error"} for
\* whatever the try block raised.
BatchEntry(file, pre, m) ==
    IF pre.exc.raised
    THEN [filename |-> file.filename, error |-> pre.exc.detail]
    ELSE IF predict(pre.tensor, m).exc.raised
    THEN [filename |-> file.filename, error |-> predict(pre.tensor, m).exc.detail]
    ELSE [filename |-> file.filename,
          prediction |-> predict(pre.tensor, m).result.prediction,
          class_probabilities |-> predict(pre.tensor, m).result.class_probabilities,
          confidence |-> predict(pre.tensor, m).result.confidence]

\* POST /predict/batch up to the first "await file.read()".
BatchReceive(c, files) ==
    /\ started
    /\ served < MaxRequests
    /\ inflight[c].st = "free"
    /\ served' = served + 1
    /\ inflight' = [inflight EXCEPT
                        ![c] = [NoRequest EXCEPT !.st = "batch", !.files = files]]
    /\ GlobalsBecome(HandlerGlobals(ServiceGlobals))
    /\ UNCHANGED <<checkpoint, started, request_count, request_latency,
                   prediction_count, last>>
    /\ UNCHANGED answers
    /\ UNCHANGED notServeVars

\* What one iteration leaves: the entry appended, the class counter of a
\* prediction incremented (in predict), and after the last file the response.
BatchIteration(c, entry) ==
    /\ prediction_count' =
            IF "prediction" \in DOMAIN entry
            THEN [prediction_count EXCEPT ![entry.prediction] = @ + 1]
            ELSE prediction_count
    /\ IF Len(inflight[c].results) + 1 = Len(inflight[c].files)
       THEN /\ last' = Response("/predict/batch", inflight[c].files, 200,
                                 Append(inflight[c].results, entry))
            /\ inflight' = [inflight EXCEPT ![c] = NoRequest]
       ELSE /\ inflight' = [inflight EXCEPT ![c].results = Append(@, entry)]
            /\ UNCHANGED last

\* predict_batch from one completed read to the next read or to the response.
BatchStep(c) ==
    /\ inflight[c].st = "batch"
    /\ UNCHANGED <<checkpoint, started, request_count, request_latency, served>>
    /\ GlobalsBecome(HandlerGlobals(ServiceGlobals))
    /\ \E draw \in Draws :
            BatchIteration(c, BatchEntry(BatchFileRead(c),
                                         preprocess_image(BatchFileRead(c).bytes,
                                                          transform, draw),
                                         model))
    /\ UNCHANGED answers
    /\ UNCHANGED notServeVars

NextServe ==
    \/ Startup
    \/ \E c \in Connections, file \in Uploads : PredictReceive(c, file)
    \/ \E c \in Connections : PredictRespond(c)
    \/ Health
    \/ Metrics

\* Uploads that pass the content type check of predict_image.
ImageUploads == [content_type : {"image/jpeg"}, bytes : UploadBytes]

\* The service with both POST endpoints in use.
NextBatch ==
    \/ Startup
    \/ \E c \in Connections, file \in ImageUploads : PredictReceive(c, file)
    \/ \E c \in Connections : PredictRespond(c)
    \/ \E c \in Connections, files \in Batches : BatchReceive(c, files)
    \/ \E c \in Connections : BatchStep(c)
    \/ Health
    \/ Metrics

----------------------------------------------------------------------------
(* The epoch loop of train() *)

\* The accuracies a pass over a partition may report, in percent.
AccValues == {0, 50, 100}

\* What model_save_dir/best_model.pt may hold before the run: nothing, or the
\* checkpoint an earlier run left.
NoFile == [by |-> "nobody", params |-> 0, val_acc |-> 0, epoch |-> 0]
EarlierFile == [by |-> "earlier run", params |-> 0, val_acc |-> 0, epoch |-> 0]

\* A local no statement has assigned yet, and the matrix a validation returns.
Unassigned == [assigned |-> FALSE, epoch |-> 0, params |-> 0]
ConfusionMatrixOf(e, p) == [assigned |-> TRUE, epoch |-> e, params |-> p]

\* Variant: the comparison is >=, an equal accuracy overwrites the checkpoint.
ImprovesOrEquals(acc, best) == acc >= best

\* "if val_acc > best_val_acc"
Improves(acc, best) == acc > best

\* Variant: the saved best checkpoint is loaded back before the test pass.
TestParamsOfBest == best_model_pt.params

\* The parameters validate(model, test_loader, ...) runs on: those of the
\* model object in memory.
TestParams == params

\* Variant: the figure is drawn from the matrix of the epoch that produced
\* the saved checkpoint.
FigureMatrixOfBest ==
    IF best_model_pt.by = "this run"
    THEN ConfusionMatrixOf(best_model_pt.epoch, best_model_pt.params)
    ELSE val_cm

\* "plt.imshow(val_cm, ...)": the matrix the figure is drawn from is whatever
\* the local val_cm holds after the loop.
FigureMatrix == val_cm

TrainIdle ==
    /\ tpc = "idle"
    /\ num_epochs = 0
    /\ epoch = 0
    /\ params = 0
    /\ mode = "train"
    /\ val_accs = <<>>
    /\ best_val_acc = 0
    /\ val_cm = Unassigned
    /\ best_model_pt = NoFile
    /\ cm_figure = Unassigned
    /\ test_evals = <<>>
    /\ trace = <<>>

InitTrain ==
    /\ tpc = "idle"
    /\ num_epochs = 0
    /\ epoch = 0
    /\ params = 0
    /\ mode = "train"
    /\ val_accs = <<>>
    /\ best_val_acc = 0
    /\ val_cm = Unassigned
    /\ best_model_pt \in {NoFile, EarlierFile}
    /\ cm_figure = Unassigned
    /\ test_evals = <<>>
    /\ trace = <<>>

\* train(num_epochs=n) up to the epoch loop: a new model, best_val_acc = 0.0,
\* empty lists.
TrainStart(n) ==
    /\ tpc = "idle"
    /\ num_epochs' = n
    /\ epoch' = 0
    /\ params' = 0
    /\ best_val_acc' = 0
    /\ val_accs' = <<>>
    /\ tpc' = IF n > 0 THEN "train_epoch" ELSE "confusion_matrix"
    /\ UNCHANGED <<mode, val_cm, best_model_pt, cm_figure, test_evals, trace>>
    /\ UNCHANGED notTrainVars

\* train_epoch(model, train_loader, ...): one pass of optimizer steps.
TrainEpoch ==
    /\ tpc = "train_epoch"
    /\ mode' = "train"
    /\ params' = params + 1
    /\ trace' = Append(trace, [pass |-> "train", epoch |-> epoch])
    /\ tpc' = "validate"
    /\ UNCHANGED <<num_epochs, epoch, val_accs, best_val_acc, val_cm,
                   best_model_pt, cm_figure, test_evals>>
    /\ UNCHANGED notTrainVars

\* validate(model, val_loader, ...) and val_accs.append(val_acc)
Validate(val_acc) ==
    /\ tpc = "validate"
    /\ mode' = "eval"
    /\ val_accs' = Append(val_accs, val_acc)
    /\ val_cm' = ConfusionMatrixOf(epoch, params)
    /\ trace' = Append(trace, [pass |-> "val", epoch |-> epoch])
    /\ tpc' = "save_best"
    /\ UNCHANGED <<num_epochs, epoch, params, best_val_acc, best_model_pt,
                   cm_figure, test_evals>>
    /\ UNCHANGED notTrainVars

\* "Save best model" and the end of the loop body.
SaveBest ==
    /\ tpc = "save_best"
    /\ IF Improves(val_accs[epoch + 1], best_val_acc)
       THEN /\ best_val_acc' = val_accs[epoch + 1]
            /\ best_model_pt' = [by |-> "this run", params |-> params,
                                 val_acc |-> val_accs[epoch + 1],
                                 epoch |-> epoch]
       ELSE UNCHANGED <<best_val_acc, best_model_pt>>
    /\ epoch' = epoch + 1
    /\ tpc' = IF epoch + 1 < num_epochs THEN "train_epoch" ELSE "confusion_matrix"
    /\ UNCHANGED <<num_epochs, params, mode, val_accs, val_cm, cm_figure,
                   test_evals, trace>>
    /\ UNCHANGED notTrainVars

\* "Log confusion matrix": plt.imshow(val_cm, ...) reads the local val_cm,
\* which only the loop body assigns.
ConfusionMatrix ==
    /\ tpc = "confusion_matrix"
    /\ IF ~val_cm.assigned
       THEN tpc' = "UnboundLocalError" /\ UNCHANGED cm_figure
       ELSE tpc' = "test" /\ cm_figure' = FigureMatrix
    /\ UNCHANGED <<num_epochs, epoch, params, mode, val_accs, best_val_acc,
                   val_cm, best_model_pt, test_evals, trace>>
    /\ UNCHANGED notTrainVars

\* "Test evaluation": validate(model, test_loader, ...), and the return.
TestEvaluate(test_acc) ==
    /\ tpc = "test"
    /\ mode' = "eval"
    /\ test_evals' = Append(test_evals, [params |-> TestParams,
                                         after_epochs |-> epoch,
                                         test_acc |-> test_acc])
    /\ trace' = Append(trace, [pass |-> "test", epoch |-> epoch])
    /\ tpc' = "done"
    /\ UNCHANGED <<num_epochs, epoch, params, val_accs, best_val_acc, val_cm,
                   best_model_pt, cm_figure>>
    /\ UNCHANGED notTrainVars

NextTrain ==
    \/ \E n \in 0..MaxEpochs : TrainStart(n)
    \/ TrainEpoch
    \/ \E val_acc \in AccValues : Validate(val_acc)
    \/ SaveBest
    \/ ConfusionMatrix
    \/ \E test_acc \in AccValues : TestEvaluate(test_acc)

----------------------------------------------------------------------------
(* Tensor shapes and the result of predict() *)

\* Pictures: PIL modes with their number of bands, and some side lengths.
Modes == {"L", "RGB", "RGBA"}
Bands(m) == IF m = "L" THEN 1 ELSE IF m = "RGB" THEN 3 ELSE 4
Sides == {1, 50, 224, 300, 1000}
Pictures == [width : Sides, height : Sides, mode : Modes]

\* transforms.Resize((224, 224)) in val_transform and in transform_fallback
ImgSize == 224

\* Variant: Resize(224), which scales the shorter side to 224 and keeps the
\* aspect ratio.
ResizeShorterSide(img, size) ==
    IF img.width <= img.height
    THEN [img EXCEPT !.width = size[2],
                     !.height = (size[2] * img.height) \div img.width]
    ELSE [img EXCEPT !.height = size[1],
                     !.width = (size[1] * img.width) \div img.height]

\* transforms.Resize((h, w)): the picture at exactly that size
Resize(img, size) == [img EXCEPT !.height = size[1], !.width = size[2]]

\* transforms.ToTensor(): shape (bands, height, width)
ToTensor(img) == <<Bands(img.mode), img.height, img.width>>

\* transforms.Normalize(mean, std) with three means: the shape is kept; a
\* tensor that does not have three channels raises (no shape).
Normalize(shape) == IF shape[1] = 3 THEN shape ELSE <<>>

\* val_transform of get_data_transforms, and the fallback of preprocess_image
val_transform(img) == Normalize(ToTensor(Resize(img, <<ImgSize, ImgSize>>)))
transform_fallback(img) == Normalize(ToTensor(Resize(img, <<ImgSize, ImgSize>>)))

\* image_tensor.unsqueeze(0)
unsqueeze(shape) == <<1>> \o shape

\* CatsDogsDataset.__getitem__ with transform=val_transform
DatasetItem(pic) == val_transform(convert(pic, "RGB"))

\* The shape preprocess_image returns for a decodable picture.
PreprocessedShape(pic, tf) ==
    unsqueeze(IF tf # "None" THEN val_transform(convert(pic, "RGB"))
              ELSE transform_fallback(convert(pic, "RGB")))

\* The softmax of two logits: two probabilities summing to one, in percent.
SoftmaxOutputs == {[cat |-> p, dog |-> 100 - p] : p \in 0..100}

NoShapes == [done |-> FALSE, eval |-> <<>>, served |-> <<>>]
NoAnswer ==
    [done |-> FALSE,
     result |-> [prediction |-> "none", class_probabilities |-> [cat |-> 0, dog |-> 0],
                 confidence |-> 0]]

TensorIdle ==
    /\ picture = [width |-> 1, height |-> 1, mode |-> "RGB"]
    /\ tf_set = "None"
    /\ shapes = NoShapes
    /\ probs_out = [cat |-> 50, dog |-> 50]
    /\ answer = NoAnswer

InitTensor ==
    /\ picture \in Pictures
    /\ tf_set \in {"None", "val_transform"}
    /\ shapes = NoShapes
    /\ probs_out \in SoftmaxOutputs
    /\ answer = NoAnswer

\* The picture goes through the dataset's evaluation transform and through
\* preprocess_image.
TransformPicture ==
    /\ ~shapes.done
    /\ shapes' = [done |-> TRUE, eval |-> DatasetItem(picture),
                  served |-> PreprocessedShape(picture, tf_set)]
    /\ UNCHANGED <<picture, tf_set, probs_out, answer>>
    /\ UNCHANGED notTensorVars

\* predict() turns the probabilities into its result dict.
PredictProbabilities ==
    /\ ~answer.done
    /\ answer' = [done |-> TRUE, result |-> PredictResult(probs_out)]
    /\ UNCHANGED <<picture, tf_set, shapes, probs_out>>
    /\ UNCHANGED notTensorVars

NextTensor ==
    \/ TransformPicture
    \/ PredictProbabilities

----------------------------------------------------------------------------
(* The labels train() gives the processed paths *)

\* The processed_data_dir of a call: the default of train.py, and a directory
\* whose name holds the word cats.
ProcessedDirs == {"data/processed", "data/cats_vs_dogs/processed"}

\* The name of a raw file: file 2 of a class directory is named cats_2.<ext>,
\* file i of the others img_i.<ext>.
FileStem(no) == [prefix |-> IF no = 2 THEN "cats_" ELSE "img_", no |-> no]

\* str(processed_path / split_name / class_name / filename), by components
PathComponents(root, out) ==
    <<root, out.split, out.cls, FileStem(out.no).prefix>>

\* "'cats' in p": the word has no separator in it, so it occurs in the path
\* exactly when it occurs in one of the components.
HoldsCats(component) ==
    component \in {"cats", "cats_", "data/cats_vs_dogs/processed"}
CatsInPath(components) ==
    \E i \in 1..Len(components) : HoldsCats(components[i])

\* "0 if 'cats' in p else 1"
LabelOfPath(root, out) == IF CatsInPath(PathComponents(root, out)) THEN 0 ELSE 1

LabelsOfPaths(root, paths) ==
    [i \in 1..Len(paths) |-> LabelOfPath(root, paths[i])]

NoLabels == [run |-> 0, train |-> <<>>, val |-> <<>>, test |-> <<>>]

LabelIdle ==
    /\ processed_data_dir = "data/processed"
    /\ train_labels = NoLabels

InitLabel ==
    /\ processed_data_dir \in ProcessedDirs
    /\ train_labels = NoLabels

\* "Load labels" of train(), on the lists preprocess_images returned.
TrainLabelPaths ==
    /\ pc = "idle" /\ result.status = "returned"
    /\ train_labels.run # runs
    /\ train_labels' =
            [run |-> runs,
             train |-> LabelsOfPaths(processed_data_dir, result.train),
             val |-> LabelsOfPaths(processed_data_dir, result.val),
             test |-> LabelsOfPaths(processed_data_dir, result.test)]
    /\ UNCHANGED processed_data_dir
    /\ UNCHANGED notLabelVars

----------------------------------------------------------------------------
(* Specifications *)

Init == InitPrep(0..MaxJpg) /\ ServeIdle /\ TrainIdle /\ TensorIdle /\ LabelIdle

Next == NextPrep

\* The preprocessing run.
Spec == Init /\ [][Next]_vars

ServeInit == InitServe /\ PrepIdle /\ TrainIdle /\ TensorIdle /\ LabelIdle

ServeNext == NextServe

\* The inference service.
SpecServe == ServeInit /\ [][ServeNext]_vars

BatchNext == NextBatch

\* The inference service serving single and batch requests concurrently.
SpecBatch == ServeInit /\ [][BatchNext]_vars

\* The preprocessing run on raw directories whose class directories hold no
\* or ten .jpg files.
InitTenTen == InitPrep({0, 10}) /\ ServeIdle /\ TrainIdle /\ TensorIdle /\ LabelIdle

SpecTenTen == InitTenTen /\ [][Next]_vars

TrainInit == InitTrain /\ PrepIdle /\ ServeIdle /\ TensorIdle /\ LabelIdle

TrainNext == NextTrain

\* The epoch loop of train().
SpecTrain == TrainInit /\ [][TrainNext]_vars

TensorInit == InitTensor /\ PrepIdle /\ ServeIdle /\ TrainIdle /\ LabelIdle

TensorNext == NextTensor

\* Pictures through the transforms, probabilities through predict().
SpecTensor == TensorInit /\ [][TensorNext]_vars

\* Raw directories whose class directories hold no or three .jpg files.
LabelInit ==
    InitPrep({0, 3}) /\ InitLabel /\ ServeIdle /\ TrainIdle /\ TensorIdle

LabelNext ==
    \/ NextPrep
    \/ TrainLabelPaths

\* The start of train(): preprocess_images, then the labels of its paths.
SpecLabel == LabelInit /\ [][LabelNext]_vars

----------------------------------------------------------------------------
(* Properties of load_image_paths and preprocess_images *)

\* The image files (.jpg, .png) a class directory of the raw directory holds.
ImageEntries(raw, cls) ==
    IF ClassDirExists(raw, cls)
    THEN {e \in raw[cls].entries : e.ext \in {"jpg", "png"}}
    ELSE {}

OtherClass(cls) == IF cls = "cats" THEN "dogs" ELSE "cats"

\* The call has ended, by a return or by an exception.
CallEnded == pc = "idle" /\ result.status # "none"
Returned == pc = "idle" /\ result.status = "returned"

\* The raw file a returned processed path was made from.
SourceOf(out) == [dir |-> out.cls, no |-> out.no, ext |-> out.ext]
Sources(paths) == {SourceOf(paths[i]) : i \in 1..Len(paths)}

\* How often a raw file occurs among the returned paths.
Occurrences(paths, src) ==
    Cardinality({i \in 1..Len(paths) : SourceOf(paths[i]) = src})

SumOfRatios(a) == a.train + a.val + a.test

\* The three returned lists partition the loaded sample list.
IsPartition(r, image_paths) ==
    /\ Len(r.train) + Len(r.val) + Len(r.test) = Len(image_paths)
    /\ Sources(r.train) \cap Sources(r.val) = {}
    /\ Sources(r.train) \cap Sources(r.test) = {}
    /\ Sources(r.val) \cap Sources(r.test) = {}
    /\ \A i \in 1..Len(image_paths) :
            Occurrences(r.train \o r.val \o r.test, image_paths[i]) = 1

C3_InvalidRatiosTouchNothing ==
    (runs > 0 /\ Abs(SumOfRatios(args) - RatioScale) >= Tolerance)
        => /\ pc \in {"validate", "idle"}
           /\ pc = "idle" => result.status = "AssertionError"
           /\ effects = {}
           /\ loc = NoLocals
           /\ <<procDirs, procFiles>> = procAtCall

C3_Witness ==
    /\ pc = "idle"
    /\ result.status = "AssertionError"
    /\ SumOfRatios(args) < RatioScale
    /\ procFiles # {}

\* C4: load_image_paths returns two empty lists when the root directory is
\* missing, when neither class directory exists, or when they hold no .jpg or
\* .png file; a missing class directory contributes no sample while the files
\* of the other class are all loaded.
C4_LoadToleratesMissingDirs ==
    "scan_raw" \in effects =>
        /\ (\A cls \in Range(ClassDirs) : ImageEntries(rawDir, cls) = {})
                => (loc.image_paths = <<>> /\ loc.labels = <<>>)
        /\ \A cls \in Range(ClassDirs) :
                ~ClassDirExists(rawDir, cls) =>
                    /\ \A i \in 1..Len(loc.image_paths) :
                            loc.image_paths[i].dir # cls
                    /\ {[no |-> q.no, ext |-> q.ext] : q \in Range(loc.image_paths)}
                            = ImageEntries(rawDir, OtherClass(cls))

C4_Witness ==
    /\ "scan_raw" \in effects
    /\ rawDir.exists
    /\ ~ClassDirExists(rawDir, "cats")
    /\ Len(loc.image_paths) >= 2

\* C5: when the raw directory yields no sample and the ratios are valid, the
\* call ends with the 'No images found' ValueError; no split is attempted and
\* no directory or file is created in the processed directory.
C5_NoImagesFailsBeforeSplit ==
    (/\ runs > 0
     /\ Abs(SumOfRatios(args) - RatioScale) < Tolerance
     /\ ImageEntries(rawDir, "cats") \cup ImageEntries(rawDir, "dogs") = {})
        => /\ pc \in {"validate", "load", "check", "idle"}
           /\ pc = "idle" => result.status = "ValueError: No images found"
           /\ effects \subseteq {"scan_raw"}
           /\ <<procDirs, procFiles>> = procAtCall

C5_Witness ==
    /\ pc = "idle"
    /\ result.status = "ValueError: No images found"
    /\ ClassDirExists(rawDir, "cats")
    /\ rawDir.cats.entries # {}

\* C6: load_image_paths returns two lists of equal length, and entry i of the
\* label list is 0 exactly when path i was found in cats/ and 1 exactly when
\* it was found in dogs/.
C6_LabelsMatchSourceDir ==
    "scan_raw" \in effects =>
        /\ Len(loc.image_paths) = Len(loc.labels)
        /\ \A i \in 1..Len(loc.image_paths) :
                /\ loc.labels[i] = 0 <=> loc.image_paths[i].dir = "cats"
                /\ loc.labels[i] = 1 <=> loc.image_paths[i].dir = "dogs"

C6_Witness ==
    /\ "scan_raw" \in effects
    /\ \E i, j \in 1..Len(loc.image_paths) :
            /\ loc.image_paths[i].dir = "cats" /\ loc.image_paths[j].dir = "dogs"
            /\ loc.image_paths[i].no = loc.image_paths[j].no
            /\ loc.image_paths[i].ext = loc.image_paths[j].ext

\* How many of the returned paths are of class cls.
CountOf(paths, cls) == Cardinality({i \in 1..Len(paths) : paths[i].cls = cls})

\* Ten decodable .jpg images and no .png image in each class directory.
TenCatsTenDogs ==
    /\ corrupt = {}
    /\ \A cls \in Range(ClassDirs) :
            ImageEntries(rawDir, cls) = {[no |-> i, ext |-> "jpg"] : i \in 1..10}

\* C7: with 10 cat images, 10 dog images and ratios 0.8/0.1/0.1 the call
\* returns 16 train, 2 val and 2 test samples: 8 cats and 8 dogs in train,
\* 1 cat and 1 dog in val, 1 cat and 1 dog in test.
C7_TenTenSplitsSixteenTwoTwo ==
    (CallEnded /\ TenCatsTenDogs /\ args = Ratios(8000000, 1000000, 1000000))
        => /\ result.status = "returned"
           /\ Len(result.train) = 16 /\ Len(result.val) = 2
           /\ Len(result.test) = 2
           /\ CountOf(result.train, "cats") = 8 /\ CountOf(result.train, "dogs") = 8
           /\ CountOf(result.val, "cats") = 1 /\ CountOf(result.val, "dogs") = 1
           /\ CountOf(result.test, "cats") = 1 /\ CountOf(result.test, "dogs") = 1

C7_Witness ==
    /\ Returned
    /\ TenCatsTenDogs
    /\ args = Ratios(8000000, 1000000, 1000000)
    /\ Len(result.train) = 16

\* Whether a returned list keeps the class proportions of the loaded samples
\* up to rounding: |count - size * fraction| < 1, multiplied out by the number
\* of loaded samples.
KeepsProportions(paths, labels) ==
    \A cls \in Range(ClassDirs) :
        Abs(CountOf(paths, cls) * Len(labels)
            - Len(paths) * Cardinality({i \in 1..Len(labels) :
                                            ClassName(labels[i]) = cls}))
            < Len(labels)

\* C8: when the split completes, in each of the three partitions the count of
\* each class differs from partition size times the class's fraction of the
\* input by less than 1.
C8_PartitionsKeepClassProportions ==
    Returned => /\ KeepsProportions(result.train, loc.labels)
                /\ KeepsProportions(result.val, loc.labels)
                /\ KeepsProportions(result.test, loc.labels)

C8_Witness ==
    /\ Returned
    /\ Len(result.val) > 0 /\ Len(result.test) > 0
    /\ Cardinality({i \in 1..Len(loc.labels) : loc.labels[i] = 0})
            > Cardinality({i \in 1..Len(loc.labels) : loc.labels[i] = 1})
    /\ 1 \in Range(loc.labels)

----------------------------------------------------------------------------
(* Properties of the inference service *)

\* C9 as stated: POST /predict answers 400 whenever the upload's content type
\* is not an image type (an upload with no content type included) or its
\* bytes cannot be decoded as an image, never 500, and leaves the loaded
\* model as it was.
C9_BadUploadAnswered400 ==
    (/\ last.endpoint = "/predict"
     /\ \/ ~StartsWithImage(last.file.content_type)
        \/ ~Decodable(last.file.bytes))
        => /\ last.status_code = 400
           /\ last.model_after = last.model_before

\* C10: with no model loaded, POST /predict of a decodable image with an image
\* content type is answered 503 'Model not loaded': the HTTPException of
\* predict reaches the client as raised, not as a 400 or a 500.
C10_NoModelAnswered503 ==
    (/\ last.endpoint = "/predict"
     /\ last.model_before = "None"
     /\ StartsWithImage(last.file.content_type)
     /\ Decodable(last.file.bytes))
        => /\ last.status_code = 503
           /\ last.body = "Model not loaded"

C10_Witness ==
    /\ last.endpoint = "/predict"
    /\ last.status_code = 503
    /\ checkpoint = "corrupt"
    /\ request_count > 1

\* Whether an entry of a batch response carries a prediction or an error.
HasPrediction(entry) == "prediction" \in DOMAIN entry
HasError(entry) == "error" \in DOMAIN entry

\* C11: the response to POST /predict/batch with N files is a 200 with N
\* entries, entry i carrying the filename of file i; each entry carries either
\* a prediction or an error; a file that cannot be decoded gets an error entry
\* and, with a model loaded, every decodable file gets a prediction.
C11_BatchAnswersEveryFile ==
    last.endpoint = "/predict/batch" =>
        /\ last.status_code = 200
        /\ Len(last.body) = Len(last.file)
        /\ \A i \in 1..Len(last.file) :
            /\ last.body[i].filename = last.file[i].filename
            /\ HasError(last.body[i]) <=> ~HasPrediction(last.body[i])
            /\ ~Decodable(last.file[i].bytes) => HasError(last.body[i])
            /\ (last.model_before # "None" /\ Decodable(last.file[i].bytes))
                    => HasPrediction(last.body[i])

C11_Witness ==
    /\ last.endpoint = "/predict/batch"
    /\ last.model_before # "None"
    /\ Len(last.file) = 2
    /\ HasError(last.body[1])
    /\ HasPrediction(last.body[2])

\* C12: the service is unloaded until startup; after startup a model is
\* loaded exactly when the checkpoint file exists and loads; GET /health
\* answers 'healthy' with model_loaded telling whether a model is loaded.
C12_HealthTellsModelLoaded ==
    /\ ~started => model = "None"
    /\ started => (model # "None" <=> checkpoint = "valid")
    /\ last.endpoint = "/health" =>
        /\ last.status_code = 200
        /\ last.body.status = "healthy"
        /\ last.body.model_loaded <=> last.model_before # "None"
        /\ last.body.model_loaded => (started /\ checkpoint = "valid")

C12_Witness ==
    /\ started
    /\ checkpoint = "corrupt"
    /\ last.endpoint = "/health"
    /\ ~last.body.model_loaded

PredictionsTotal(counts) == counts.cat + counts.dog

\* Steps of a POST /predict call: received and suspended at the read, received
\* and answered at once by the content type check, answered after the read.
PredictSuspends ==
    \E c \in Connections : inflight[c].st = "free" /\ inflight'[c].st = "reading"
PredictRefused == served' = served + 1 /\ inflight' = inflight
PredictAnswered ==
    \E c \in Connections : inflight[c].st = "reading" /\ inflight'[c].st = "free"

\* C13 as stated: every POST /predict call, one that ends in an error
\* included, increments the request counter once, records one latency
\* observation and increments one per-class prediction counter.
C13_EveryCallCountsEverything ==
    [][/\ (PredictSuspends \/ PredictRefused)
            => request_count' = request_count + 1
       /\ (PredictRefused \/ PredictAnswered)
            => /\ request_latency' = request_latency + 1
               /\ PredictionsTotal(prediction_count')
                    = PredictionsTotal(prediction_count) + 1]_vars

\* C13 amended: every POST /predict call increments the request counter once,
\* when it is received; a call answered 200 records one latency observation
\* and increments the counter of the predicted class, and no other; a call
\* that ends in an error records no latency and increments no class counter.
C13_CallsCountedPredictionsOnSuccess ==
    [][/\ (PredictSuspends \/ PredictRefused)
            => /\ request_count' = request_count + 1
               /\ UNCHANGED <<request_latency, prediction_count>>
       /\ PredictRefused => last'.status_code # 200
       /\ PredictAnswered
            => /\ request_count' = request_count
               /\ IF last'.status_code = 200
                  THEN /\ request_latency' = request_latency + 1
                       /\ prediction_count' =
                            [prediction_count EXCEPT
                                ![last'.body.prediction] = @ + 1]
                  ELSE UNCHANGED <<request_latency, prediction_count>>
       /\ ~(PredictSuspends \/ PredictRefused \/ PredictAnswered)
            => UNCHANGED <<request_count, request_latency, prediction_count>>]_vars

C13_Witness ==
    /\ request_count = 2
    /\ request_latency = 1
    /\ PredictionsTotal(prediction_count) = 1
    /\ last.endpoint = "/predict"
    /\ last.status_code = 400

\* C14: once startup has finished no step of any request handler (GET /health,
\* GET /metrics, POST /predict, POST /predict/batch) changes the service-wide
\* model, device or transform, whether the request succeeds or fails; whether
\* a model is loaded never changes after startup.
C14_HandlersLeaveModelAlone ==
    [][started => /\ started'
                  /\ model' = model
                  /\ device' = device
                  /\ transform' = transform
                  /\ last'.model_after = last'.model_before]_vars

C14_Witness ==
    /\ started
    /\ model = "None"
    /\ transform = "None"
    /\ served = MaxRequests
    /\ last.endpoint = "/predict/batch"
    /\ \E i \in 1..Len(last.body) : HasError(last.body[i])

\* What a request with the given bytes is answered, from its bytes and the
\* model alone.
OwnPrediction(image_bytes) ==
    IF image_bytes = "cat_picture" THEN "cat" ELSE "dog"

PredictFromOwnBytes(resp) ==
    IF ~Decodable(resp.file.bytes) THEN resp.status_code = 400
    ELSE IF resp.model_before = "None" THEN resp.status_code = 503
    ELSE /\ resp.status_code = 200
         /\ resp.body.prediction = OwnPrediction(resp.file.bytes)
         /\ resp.body.class_probabilities = Probabilities(resp.file.bytes)

BatchFromOwnBytes(resp) ==
    /\ Len(resp.body) = Len(resp.file)
    /\ \A i \in 1..Len(resp.file) :
        IF ~Decodable(resp.file[i].bytes) \/ resp.model_before = "None"
        THEN HasError(resp.body[i])
        ELSE /\ HasPrediction(resp.body[i])
             /\ resp.body[i].prediction = OwnPrediction(resp.file[i].bytes)
             /\ resp.body[i].class_probabilities
                    = Probabilities(resp.file[i].bytes)

\* C15: under every interleaving of POST /predict and POST /predict/batch
\* requests at their reads, each response is what the request's own bytes and
\* the model give, and a step of one request leaves the locals of every other
\* in-flight request as they were.
C15_RequestsDoNotInterfere ==
    [][/\ last'.endpoint = "/predict" => PredictFromOwnBytes(last')
       /\ last'.endpoint = "/predict/batch" => BatchFromOwnBytes(last')
       /\ \A c, d \in Connections :
            (c # d /\ inflight'[c] # inflight[c]) => inflight'[d] = inflight[d]]_vars

C15_Witness ==
    /\ last.endpoint = "/predict"
    /\ last.status_code = 200
    /\ last.body.prediction = "cat"
    /\ \E c \in Connections :
            /\ inflight[c].st = "batch"
            /\ Len(inflight[c].results) = 1
            /\ HasPrediction(inflight[c].results[1])

----------------------------------------------------------------------------
(* Properties of train() *)

\* The largest of 0.0 and the accuracies of a list.
RunningBest(accs) ==
    CHOOSE m \in {0} \cup Range(accs) : \A a \in {0} \cup Range(accs) : a <= m

\* C16: best_val_acc never decreases and after each epoch is the largest
\* validation accuracy so far (or 0.0); best_model.pt is replaced by the
\* current parameters in exactly the epochs whose validation accuracy is
\* strictly greater than every earlier one and than 0.0, and in no other step.
C16_BestTracksStrictImprovement ==
    [][/\ best_val_acc' >= best_val_acc
       /\ tpc = "save_best" => best_val_acc' = RunningBest(val_accs)
       /\ best_model_pt' # best_model_pt
            <=> /\ tpc = "save_best"
                /\ val_accs[epoch + 1]
                        > RunningBest(SubSeq(val_accs, 1, epoch))
       /\ best_model_pt' # best_model_pt
            => best_model_pt' = [by |-> "this run", params |-> params,
                                 val_acc |-> val_accs[epoch + 1],
                                 epoch |-> epoch]]_vars

C16_Witness ==
    /\ tpc = "done"
    /\ val_accs = <<50, 50, 100>>
    /\ best_model_pt.epoch = 2
    /\ best_val_acc = 100

\* C17: the passes over the data are train 0, val 0, train 1, val 1, ... and
\* then at most one test pass, made after the validation of the last epoch on
\* the parameters the last training pass left, not on the saved checkpoint's;
\* a call of train() that returns has made exactly one test pass.
C17_TestOnceAfterLastEpoch ==
    /\ \A i \in 1..Len(trace) :
        IF i <= 2 * num_epochs
        THEN trace[i] = [pass |-> IF i % 2 = 1 THEN "train" ELSE "val",
                         epoch |-> (i - 1) \div 2]
        ELSE i = 2 * num_epochs + 1 /\ trace[i].pass = "test"
    /\ Len(test_evals) <= 1
    /\ Len(test_evals) = 1
        => /\ Len(val_accs) = num_epochs
           /\ test_evals[1].after_epochs = num_epochs
           /\ test_evals[1].params = num_epochs
    /\ tpc = "done" => Len(test_evals) = 1

C17_Witness ==
    /\ tpc = "done"
    /\ num_epochs = 3
    /\ best_model_pt.by = "this run"
    /\ best_model_pt.params < test_evals[1].params

----------------------------------------------------------------------------
(* Properties of the transforms and of predict() *)

\* C18: for a decodable picture of any width, height and mode the evaluation
\* transform of the dataset yields a tensor of shape 3x224x224 and
\* preprocess_image one of shape 1x3x224x224, with the service-wide transform
\* set or with the fallback transform.
C18_TensorShapeIsFixed ==
    shapes.done => /\ shapes.eval = <<3, 224, 224>>
                   /\ shapes.served = <<1, 3, 224, 224>>

C18_Witness ==
    /\ shapes.done
    /\ picture.mode = "L"
    /\ picture.width = 1000 /\ picture.height = 50
    /\ tf_set = "None"

\* C19: predict() returns 'cat' when the first class has the largest
\* probability (argmax 0) and 'dog' when the second has (argmax 1),
\* class_probabilities with exactly the keys cat and dog holding the two
\* probabilities, and a confidence within [0, 1] that is the probability of
\* the predicted class and the larger of the two.
C19_PredictionIsArgmax ==
    answer.done =>
        /\ probs_out.cat >= probs_out.dog => answer.result.prediction = "cat"
        /\ probs_out.dog > probs_out.cat => answer.result.prediction = "dog"
        /\ DOMAIN answer.result.class_probabilities = {"cat", "dog"}
        /\ answer.result.class_probabilities.cat = probs_out.cat
        /\ answer.result.class_probabilities.dog = probs_out.dog
        /\ answer.result.confidence
                = answer.result.class_probabilities[answer.result.prediction]
        /\ answer.result.confidence >= probs_out.cat
        /\ answer.result.confidence >= probs_out.dog
        /\ answer.result.confidence \in 0..100

C19_Witness ==
    /\ answer.done
    /\ probs_out.dog > probs_out.cat
    /\ probs_out.cat > 0
    /\ answer.result.prediction = "dog"

----------------------------------------------------------------------------
(* The processed-data layout *)

\* The paths and labels of a partition as the second split left them.
SplitPaths(sp) ==
    IF sp = "train" THEN loc.train_paths
    ELSE IF sp = "val" THEN loc.val_paths ELSE loc.test_paths
SplitLabels(sp) ==
    IF sp = "train" THEN loc.train_labels
    ELSE IF sp = "val" THEN loc.val_labels ELSE loc.test_labels

----------------------------------------------------------------------------
(* The order of the checks of POST /predict *)

\* C24 as stated: POST /predict checks the content type, then decodes the
\* image, then looks for the model: with no model loaded a request whose
\* content type is not an image type or whose bytes cannot be decoded is
\* answered 400, with the detail of the content type check when both fail,
\* and 503 is answered only to requests that passed both input checks.
C24_InputChecksBeforeModelCheck ==
    last.endpoint = "/predict" =>
        /\ (/\ last.model_before = "None"
            /\ \/ ~StartsWithImage(last.file.content_type)
               \/ ~Decodable(last.file.bytes))
                => last.status_code = 400
        /\ (/\ ~StartsWithImage(last.file.content_type)
            /\ ~Decodable(last.file.bytes))
                => last.body = "File must be an image"
        /\ last.status_code = 503
                => /\ StartsWithImage(last.file.content_type)
                   /\ Decodable(last.file.bytes)
                   /\ last.model_before = "None"

----------------------------------------------------------------------------
(* Repeatable inference *)

----------------------------------------------------------------------------
(* The confusion-matrix figure, the checkpoint and the run without epochs *)

\* The last epoch's validation accuracy is strictly the best of the run.
LastEpochIsBest ==
    /\ num_epochs > 0
    /\ Len(val_accs) = num_epochs
    /\ val_accs[num_epochs] > RunningBest(SubSeq(val_accs, 1, num_epochs - 1))

\* C23: the confusion-matrix figure logged after the epoch loop is drawn from
\* the validation confusion matrix of the last epoch run (made on the
\* parameters that epoch's training pass left), whichever epoch the saved
\* checkpoint is from; it is the matrix of the checkpoint's epoch exactly when
\* the last epoch is the best one.
C23_FigureIsLastEpochsMatrix ==
    cm_figure.assigned =>
        /\ cm_figure.epoch = num_epochs - 1
        /\ cm_figure.params = num_epochs
        /\ best_model_pt.by = "this run"
            => (cm_figure.epoch = best_model_pt.epoch <=> LastEpochIsBest)

C23_Witness ==
    /\ tpc = "done"
    /\ val_accs = <<100, 50, 50>>
    /\ cm_figure.epoch = 2
    /\ best_model_pt.by = "this run" /\ best_model_pt.epoch = 0

\* C25 as stated: when train() has completed a run of one or more epochs,
\* best_model.pt in model_save_dir is a checkpoint this run wrote, whatever
\* the validation accuracies of the epochs were.
C25_CompletedRunLeavesCheckpoint ==
    (tpc = "done" /\ num_epochs >= 1) => best_model_pt.by = "this run"

\* C26 as stated: for every num_epochs >= 0 train() gets past the epoch loop
\* to the test evaluation; no step after the loop fails on a name that only
\* the loop body assigns.
C26_EveryRunReachesTestEvaluation ==
    /\ tpc # "UnboundLocalError"
    /\ tpc \in {"test", "done"} => Len(val_accs) = num_epochs

----------------------------------------------------------------------------
(* The processed directory across runs *)

\* C27 as stated: after any sequence of preprocess_images runs into the same
\* processed_data_dir, no file name of a class is on disk under more than
\* one of train/, val/ and test/.
C27_PartitionsOnDiskDisjoint ==
    \A f, g \in procFiles :
        (f.cls = g.cls /\ f.no = g.no /\ f.ext = g.ext) => f.split = g.split

----------------------------------------------------------------------------
(* The labels of train() *)

\* C22 as stated: the label train() gives a returned processed path (0 when
\* 'cats' occurs in the path, else 1) is the label load_image_paths gave the
\* image for its source directory, whatever processed_data_dir and the file
\* names are.
C22_TrainLabelIsSourceLabel ==
    (Returned /\ train_labels.run = runs) =>
        \A sp \in Range(Splits) :
            /\ Len(train_labels[sp]) = Len(SplitLabels(sp))
            /\ \A i \in 1..Len(SplitLabels(sp)) :
                    train_labels[sp][i] = SplitLabels(sp)[i]

====
